---- MODULE Spec2Model ----
(***************************************************************************)
(* A model of RollbackManager (src/src/rollback/rollback_manager.py): the  *)
(* checkpoint history, the current state, the counters, and the Python     *)
(* objects (dicts) that the manager and its caller share by reference.     *)
(*                                                                         *)
(* A dict is an object on the heap: `heap` maps an object reference to the *)
(* dict's value.  A value is a number: 0 is the empty dict {}, a positive  *)
(* number v is the dict {"x": v}.  deepcopy allocates a new object with    *)
(* the same value; an assignment without a copy stores the reference.      *)
(* After every operation the objects nobody references are dropped and the *)
(* references renumbered in a fixed order (Python's object identities are  *)
(* arbitrary, so states that differ only in the numbering are the same).   *)
(***************************************************************************)
EXTENDS Integers, Sequences, FiniteSets, TLC

\* ---------------------------------------------------------------- bounds
MaxTime == 1          \* the clock runs 0 .. MaxTime
MaxVal == 1           \* dict values are 0 .. MaxVal
MaxCheckpoints == 3   \* create_checkpoint succeeds at most this often
MaxRollbacks == 1     \* successful restores
MaxLen == 2           \* entries the history may hold after an operation
MaxHistory == 2       \* max_history is configured in 1 .. MaxHistory
MaxExecutions == 3    \* execute_action calls between two resets
MaxParses == 3        \* parse calls between two reset_statistics

\* The clock ticks this often per second: the id carries the time formatted
\* to the second ('%Y%m%d_%H%M%S'), the timestamp the full datetime.
TicksPerSecond == 2

Vals == 0 .. MaxVal
NoVal == -1           \* None where a dict is expected
NoRef == 0            \* None where an object reference is expected

Descriptions == {"d"}

\* ------------------------------------------------------------------- ids
\* The string "checkpoint_<ctr>_<sec>" is the record [ctr, sec]; every
\* string of another form is ForeignId; "" is EmptyId; None is NoneId.
CheckpointId(count, time) == [ctr |-> count, sec |-> time \div TicksPerSecond]
ForeignId == [ctr |-> -3, sec |-> 0]
EmptyId == [ctr |-> -1, sec |-> 0]
NoneId == [ctr |-> -2, sec |-> 0]

\* The ids a file handed to import_checkpoint may carry.
ImportIds == {CheckpointId(0, 0), ForeignId}

\* ------------------------------------------------------------- sequences
Range(s) == {s[i] : i \in DOMAIN s}

RECURSIVE Dedup(_, _)
\* s without NoRef and without the second and later occurrences of a value
Dedup(s, acc) ==
    IF s = <<>> THEN acc
    ELSE IF Head(s) = NoRef \/ Head(s) \in Range(acc) THEN Dedup(Tail(s), acc)
    ELSE Dedup(Tail(s), Append(acc, Head(s)))

RECURSIVE Flatten(_)
Flatten(ss) == IF ss = <<>> THEN <<>> ELSE Head(ss) \o Flatten(Tail(ss))

IndexOf(s, x) == CHOOSE i \in DOMAIN s : s[i] = x

VARIABLES
    enabled,          \* config "enabled"
    max_history,      \* config "max_history"
    auto_cleanup,     \* config "auto_cleanup"
    rollback_points,  \* the history: a sequence of RollbackPoint
    current_state,    \* reference of the current-state dict
    rollback_count,
    checkpoint_count,
    heap,             \* sequence of dict values, indexed by object reference
    now,              \* datetime.now()
    held,             \* the dict the caller keeps a reference to, or NoRef
    heldAs,           \* how the caller came to it
    created,          \* history variable: the ids create_checkpoint returned
    onlyCreates,      \* history variable: only create_checkpoint changed the history
    pc,               \* each thread's position in create_checkpoint
    frame,            \* each thread's arguments and local variables
    execution_history, \* SystemController.execution_history
    current_status,   \* SystemController.current_status
    completed,        \* history variable: execute_action calls since __init__ or reset
    parser_enabled,   \* ActionParser.enabled
    strict_mode,      \* ActionParser.strict_mode
    supported_formats, \* ActionParser.supported_formats
    parse_count,      \* ActionParser.parse_count
    error_count,      \* ActionParser.error_count
    format_stats,     \* ActionParser.format_stats
    parse_calls       \* history variable: parse calls on the enabled parser since
                      \* __init__ or reset_statistics

\* The variables of the threads, of the SystemController, of the ActionParser,
\* and of the RollbackManager.
threadVars == <<pc, frame>>
controllerVars == <<execution_history, current_status, completed>>
parserVars == <<parser_enabled, strict_mode, supported_formats, parse_count,
                error_count, format_stats, parse_calls>>
storeVars == <<enabled, max_history, auto_cleanup, rollback_points, current_state,
               rollback_count, checkpoint_count, heap, now, held, heldAs, created,
               onlyCreates>>

\* What an operation of the RollbackManager called from one thread leaves
\* alone.
elsewhere == <<threadVars, controllerVars, parserVars>>

vars == <<storeVars, elsewhere>>

config == <<enabled, max_history, auto_cleanup>>

\* --------------------------------------------------------- RollbackPoint
RollbackPoint(id, timestamp, description, state_snapshot, metadata) ==
    [id |-> id, timestamp |-> timestamp, description |-> description,
     state_snapshot |-> state_snapshot, metadata |-> metadata]

\* ------------------------------------------------------------------ heap
\* A new dict object with value v: the heap with it, and its reference.
Alloc(h, v) == [h |-> Append(h, v), r |-> Len(h) + 1]

\* deepcopy(obj): a new object with the value of r.
DeepCopy(h, r) == Alloc(h, h[r])

\* The references a state holds, in a fixed order: the history's, the
\* current state's, the caller's.
Roots(rp, cur, hd) ==
    Dedup(Flatten([i \in DOMAIN rp |-> <<rp[i].state_snapshot, rp[i].metadata>>])
          \o <<cur, hd>>, <<>>)

Renumber(order, r) == IF r = NoRef THEN NoRef ELSE IndexOf(order, r)

\* The state after an operation: the objects nobody references dropped, the
\* others renumbered in the order of Roots. The caller keeps the dict hd,
\* which it came to as `as`.
Commit(h, rp, cur, hd, as) ==
    \E order \in {Roots(rp, cur, hd)} :
        /\ heap' = [k \in DOMAIN order |-> h[order[k]]]
        /\ rollback_points' =
              [i \in DOMAIN rp |->
                  [rp[i] EXCEPT !.state_snapshot = Renumber(order, @),
                                !.metadata = Renumber(order, @)]]
        /\ current_state' = Renumber(order, cur)
        /\ held' = Renumber(order, hd)
        /\ heldAs' = IF hd = NoRef THEN "none" ELSE as

\* __init__: an empty history, an empty current state, counters at zero.
InitStore ==
    /\ rollback_points = <<>>
    /\ heap = <<0>>
    /\ current_state = 1
    /\ rollback_count = 0
    /\ checkpoint_count = 0
    /\ now = 0
    /\ held = NoRef
    /\ heldAs = "none"
    /\ created = <<>>
    /\ onlyCreates = TRUE

\* The threads that call the store.
Threads == {"t1", "t2"}

\* The frame of a thread that is in no call.
NoFrame == [state |-> NoVal, checkpoint_id |-> NoneId, count |-> NoVal]

InitThreads ==
    /\ pc = [t \in Threads |-> "idle"]
    /\ frame = [t \in Threads |-> NoFrame]

\* SystemController.__init__
InitController ==
    /\ execution_history = <<>>
    /\ current_status = "idle"
    /\ completed = 0

\* ActionParser.__init__ with the configuration given.
InitParser(isEnabled, isStrict, formats) ==
    /\ parser_enabled = isEnabled
    /\ strict_mode = isStrict
    /\ supported_formats = formats
    /\ parse_count = 0
    /\ error_count = 0
    /\ format_stats = [fmt \in formats |-> 0]
    /\ parse_calls = 0

\* The formats of a parser built from {}.
DefaultFormats == {"json", "yaml", "xml"}

\* A store of any configuration, beside a controller and a parser built
\* from {}.
Init ==
    /\ enabled \in BOOLEAN
    /\ max_history \in 1 .. MaxHistory
    /\ auto_cleanup \in BOOLEAN
    /\ InitStore
    /\ InitThreads
    /\ InitController
    /\ InitParser(TRUE, FALSE, DefaultFormats)

\* The clock advances.
Tick ==
    /\ now < MaxTime
    /\ now' = now + 1
    /\ UNCHANGED <<elsewhere, config, rollback_points, current_state, rollback_count,
                   checkpoint_count, heap, held, heldAs, created, onlyCreates>>

\* ------------------------------------------------------ create_checkpoint
\* A changed line 78: the id numbered by the length of the history.
NewCheckpointIdByLength == CheckpointId(Len(rollback_points), now)

\* The id of the next checkpoint (line 78).
NewCheckpointId == CheckpointId(checkpoint_count, now)

\* A changed line 84: state_snapshot=state, the caller's own dict.
SnapshotByReference(h, state) == [h |-> h, r |-> state]

\* state_snapshot=deepcopy(state) (line 84)
SnapshotOfState(h, state) == DeepCopy(h, state)

\* metadata=metadata or {} (line 85): None and the empty dict are falsy and
\* give a new empty dict; any other dict is stored as it is.
MetadataOrEmpty(h, metadata) ==
    IF metadata = NoRef \/ h[metadata] = 0 THEN Alloc(h, 0)
    ELSE [h |-> h, r |-> metadata]

\* Changed lines 93-95: pop() for pop(0), the newest entry goes.
CleanupNewest(rp) ==
    IF auto_cleanup /\ Len(rp) > max_history THEN SubSeq(rp, 1, Len(rp) - 1) ELSE rp

\* Cleanup old checkpoints if needed (lines 93-95)
Cleanup(rp) ==
    IF auto_cleanup /\ Len(rp) > max_history THEN Tail(rp) ELSE rp

\* The caller's argument: the dict it holds (<<"held", NoVal>>), a dict it
\* builds for the call (<<"new", v>>), or None (<<"none", NoVal>>).
Argument(h, arg) ==
    IF arg[1] = "held" THEN [h |-> h, r |-> held]
    ELSE IF arg[1] = "new" THEN Alloc(h, arg[2])
    ELSE [h |-> h, r |-> NoRef]

ArgChoices(allowNone) ==
    {<<"new", v>> : v \in Vals}
    \cup (IF held # NoRef THEN {<<"held", NoVal>>} ELSE {})
    \cup (IF allowNone THEN {<<"none", NoVal>>} ELSE {})

\* A changed line 76: the disabled store returns the id it would have given.
create_checkpoint_returns_id == NewCheckpointId

\* What create_checkpoint returns: "" on a disabled store (line 76), the new
\* id otherwise (line 98).
create_checkpoint_returns == IF ~enabled THEN EmptyId ELSE NewCheckpointId

\* keep: which of its two arguments the caller keeps a reference to after the
\* call ("none": it keeps what it held).
create_checkpoint(description, sArg, mArg, keep) ==
    IF ~enabled
    THEN UNCHANGED vars
    ELSE
    \E st \in {Argument(heap, sArg)} :
    \E md \in {Argument(st.h, mArg)} :
    \E snap \in {SnapshotOfState(md.h, st.r)} :
    \E meta \in {MetadataOrEmpty(snap.h, md.r)} :
    \E cur \in {DeepCopy(meta.h, st.r)} :
    \E rp \in {Cleanup(Append(rollback_points,
                    RollbackPoint(NewCheckpointId, now, description,
                                  snap.r, meta.r)))} :
        /\ checkpoint_count < MaxCheckpoints
        /\ Len(rp) <= MaxLen
        /\ keep = "metadata" => md.r # NoRef
        /\ checkpoint_count' = checkpoint_count + 1
        /\ created' = Append(created, create_checkpoint_returns)
        /\ Commit(cur.h, rp, cur.r,
                  CASE keep = "state" -> st.r [] keep = "metadata" -> md.r
                    [] OTHER -> held,
                  IF keep = "none" THEN heldAs ELSE keep)
        /\ UNCHANGED <<elsewhere, config, rollback_count, now, onlyCreates>>

CreateCheckpoint(keeps) ==
    \E description \in Descriptions, sArg \in ArgChoices(FALSE),
       mArg \in ArgChoices(TRUE), keep \in keeps :
        create_checkpoint(description, sArg, mArg, keep)

\* ----------------------------------------------------------------- files
\* datetime.isoformat(): the seconds and the fraction of a second, as text.
IsoFormat(t) == [sec |-> t \div TicksPerSecond, frac |-> t % TicksPerSecond]

\* A changed line 273: the fraction of the second is dropped.
FromIsoFormatSeconds(s) == s.sec * TicksPerSecond

\* datetime.fromisoformat()
FromIsoFormat(s) == s.sec * TicksPerSecond + s.frac

\* A timestamp text fromisoformat() raises ValueError on.
BadIso == [sec |-> -1, frac |-> 0]

RequiredKeys == {"id", "timestamp", "description", "state_snapshot"}
AllKeys == RequiredKeys \cup {"metadata"}

\* A JSON file: the keys of its top-level object and their values (dicts are
\* values here, not objects: a file holds text).
CheckpointFile(keys, id, timestamp, description, state_snapshot, metadata) ==
    [keys |-> keys, id |-> id, timestamp |-> timestamp,
     description |-> description, state_snapshot |-> state_snapshot,
     metadata |-> metadata]

\* The files a caller may hand to import_checkpoint besides its own exports:
\* complete records, records without metadata, records lacking one required
\* key, and a record whose timestamp does not parse.
ExternalFiles ==
    {CheckpointFile(AllKeys, id, IsoFormat(t), d, v, m) :
        id \in ImportIds, t \in 0 .. MaxTime, d \in Descriptions,
        v \in Vals, m \in Vals}
    \cup {CheckpointFile(RequiredKeys, id, IsoFormat(t), "d", v, NoVal) :
        id \in ImportIds, t \in 0 .. MaxTime, v \in Vals}
    \cup {CheckpointFile(AllKeys \ {k}, ForeignId, IsoFormat(0), "d", 0, 0) :
        k \in RequiredKeys}
    \cup {CheckpointFile(AllKeys, ForeignId, BadIso, "d", 0, 0)}

\* -------------------------------------------------------------- lookups
\* for checkpoint in self.rollback_points: if checkpoint.id == checkpoint_id:
\* the index of the first entry with the id, 0 if there is none.
FindById(rp, checkpoint_id) ==
    IF \E i \in DOMAIN rp : rp[i].id = checkpoint_id
    THEN CHOOSE i \in DOMAIN rp :
            /\ rp[i].id = checkpoint_id
            /\ \A j \in 1 .. (i - 1) : rp[j].id # checkpoint_id
    ELSE 0

\* max(rp, key=timestamp): the first entry among those with the greatest key.
MaxByTimestamp(rp) ==
    rp[CHOOSE i \in DOMAIN rp :
          /\ \A j \in DOMAIN rp : rp[j].timestamp <= rp[i].timestamp
          /\ \A j \in 1 .. (i - 1) : rp[j].timestamp < rp[i].timestamp]

\* sorted(rp, key=timestamp, reverse=True): descending, and stable: entries
\* with equal timestamps keep their list order.
SortedByTimestampDesc(rp) ==
    LET Before(j, i) ==
            \/ rp[j].timestamp > rp[i].timestamp
            \/ rp[j].timestamp = rp[i].timestamp /\ j < i
        Rank(i) == 1 + Cardinality({j \in DOMAIN rp : Before(j, i)})
    IN  [k \in DOMAIN rp |-> rp[CHOOSE i \in DOMAIN rp : Rank(i) = k]]

\* The ids the entries of a history carry.
Ids(rp) == {rp[i].id : i \in DOMAIN rp}

\* The ids a caller may ask for: those in the history and those of files.
AskedIds == {rollback_points[i].id : i \in DOMAIN rollback_points} \cup ImportIds

\* ------------------------------------------------- rollback_to_checkpoint
\* A changed line 127: restored_state = {}.
RestoredEmpty(h, target) == Alloc(h, 0)

\* restored_state = deepcopy(target_checkpoint.state_snapshot) (line 127)
RestoredState(h, target) == DeepCopy(h, target.state_snapshot)

\* Lines 110-112 left out: a disabled store restores as an enabled one.
RollbackTargetAnyConfig(checkpoint_id) == FindById(rollback_points, checkpoint_id)

\* The entry rollback_to_checkpoint restores: the index of the first entry
\* with the id, 0 (the call returns None) on a disabled store or an unknown id.
RollbackTarget(checkpoint_id) ==
    IF ~enabled THEN 0 ELSE FindById(rollback_points, checkpoint_id)

\* The value of the dict rollback_to_checkpoint returns, NoVal for None.
rollback_to_checkpoint_returns(checkpoint_id) ==
    LET i == RollbackTarget(checkpoint_id)
    IN  IF i = 0 THEN NoVal
        ELSE LET restored == RestoredState(heap, rollback_points[i])
             IN  restored.h[restored.r]

\* Line 129 left out: the restore is not counted.
rollback_without_count(checkpoint_id, keep) ==
    LET i == RollbackTarget(checkpoint_id)
    IN  IF i = 0
        THEN UNCHANGED vars
        ELSE \E restored \in {RestoredState(heap, rollback_points[i])} :
                 /\ rollback_count < MaxRollbacks
                 /\ Commit(restored.h, rollback_points, restored.r,
                           IF keep THEN restored.r ELSE held,
                           IF keep THEN "restored" ELSE heldAs)
                 /\ UNCHANGED <<elsewhere, config, rollback_count, checkpoint_count, now,
                                created, onlyCreates>>

\* keep: the caller keeps a reference to the dict it is handed.
rollback_to_checkpoint(checkpoint_id, keep) ==
    LET i == RollbackTarget(checkpoint_id)
    IN  IF i = 0
        THEN UNCHANGED vars
        ELSE \E restored \in {RestoredState(heap, rollback_points[i])} :
                 /\ rollback_count < MaxRollbacks
                 /\ rollback_count' = rollback_count + 1
                 /\ Commit(restored.h, rollback_points, restored.r,
                           IF keep THEN restored.r ELSE held,
                           IF keep THEN "restored" ELSE heldAs)
                 /\ UNCHANGED <<elsewhere, config, checkpoint_count, now, created,
                                onlyCreates>>

RollbackToCheckpoint(keeps) ==
    \E checkpoint_id \in AskedIds, keep \in keeps :
        rollback_to_checkpoint(checkpoint_id, keep)

\* The id rollback_to_latest hands to rollback_to_checkpoint (lines 145-150),
\* NoneId when it returns None before.
LatestId ==
    IF rollback_points = <<>> THEN NoneId
    ELSE MaxByTimestamp(rollback_points).id

rollback_to_latest_returns ==
    IF LatestId = NoneId THEN NoVal ELSE rollback_to_checkpoint_returns(LatestId)

rollback_to_latest(keep) ==
    IF LatestId = NoneId THEN UNCHANGED vars
    ELSE rollback_to_checkpoint(LatestId, keep)

RollbackToLatest(keeps) == \E keep \in keeps : rollback_to_latest(keep)

\* Line 166 left out: an offset out of range is taken for the nearest one in
\* range.
NStepsIdUnchecked(steps) ==
    IF rollback_points = <<>> THEN NoneId
    ELSE SortedByTimestampDesc(rollback_points)[
             IF steps <= 0 THEN 1
             ELSE IF steps > Len(rollback_points) THEN Len(rollback_points)
             ELSE steps].id

\* The id rollback_n_steps hands to rollback_to_checkpoint (lines 162-174),
\* NoneId when it returns None before.
NStepsId(steps) ==
    IF rollback_points = <<>> \/ steps <= 0 \/ steps > Len(rollback_points)
    THEN NoneId
    ELSE SortedByTimestampDesc(rollback_points)[steps].id

rollback_n_steps_returns(steps) ==
    IF NStepsId(steps) = NoneId THEN NoVal
    ELSE rollback_to_checkpoint_returns(NStepsId(steps))

rollback_n_steps(steps, keep) ==
    IF NStepsId(steps) = NoneId THEN UNCHANGED vars
    ELSE rollback_to_checkpoint(NStepsId(steps), keep)

\* The steps a caller may ask for.
Steps == -1 .. (MaxLen + 1)

RollbackNSteps(keeps) ==
    \E steps \in Steps, keep \in keeps : rollback_n_steps(steps, keep)

\* ------------------------------------------------------------------ reads
\* RollbackPoint.to_dict: a new dict whose "state_snapshot" and "metadata"
\* are the checkpoint's own objects (lines 28-29); the dicts reachable from
\* it, by key.
to_dict(checkpoint) ==
    [state_snapshot |-> checkpoint.state_snapshot, metadata |-> checkpoint.metadata]

DictKeys == {"state_snapshot", "metadata"}

\* What the caller holds after it was handed the dict d and kept what is
\* under `key` ("none": it keeps what it held).
Kept(d, key) == IF key = "none" THEN held ELSE d[key]
KeptAs(key) == IF key = "none" THEN heldAs ELSE "read"

\* What get_checkpoint returns: the dict of the first entry with the id, or
\* None (here: no index).
get_checkpoint_returns(checkpoint_id) == FindById(rollback_points, checkpoint_id)

get_checkpoint(checkpoint_id, key) ==
    LET i == get_checkpoint_returns(checkpoint_id)
    IN  IF i = 0
        THEN UNCHANGED vars
        ELSE /\ Commit(heap, rollback_points, current_state,
                       Kept(to_dict(rollback_points[i]), key), KeptAs(key))
             /\ UNCHANGED <<elsewhere, config, rollback_count, checkpoint_count, now,
                            created, onlyCreates>>

GetCheckpoint(keys) ==
    \E checkpoint_id \in AskedIds, key \in keys :
        get_checkpoint(checkpoint_id, key)

\* What get_checkpoint_history returns: the dicts of the entries, newest first.
get_checkpoint_history_returns ==
    [i \in DOMAIN rollback_points |->
        to_dict(SortedByTimestampDesc(rollback_points)[i])]

\* k, key: the entry of the k-th dict of the returned list the caller keeps a
\* reference to.
get_checkpoint_history(k, key) ==
    LET history == get_checkpoint_history_returns
    IN  IF k \notin DOMAIN history
        THEN UNCHANGED vars
        ELSE /\ Commit(heap, rollback_points, current_state,
                       Kept(history[k], key), KeptAs(key))
             /\ UNCHANGED <<elsewhere, config, rollback_count, checkpoint_count, now,
                            created, onlyCreates>>

GetCheckpointHistory(keys) ==
    \E k \in 1 .. MaxLen, key \in keys : get_checkpoint_history(k, key)

\* ------------------------------------------------------ delete and clear
\* pop() in the place of pop(i).
RemoveLast(s, i) == SubSeq(s, 1, Len(s) - 1)

\* rollback_points.pop(i)
RemoveAt(s, i) == [k \in 1 .. (Len(s) - 1) |-> IF k < i THEN s[k] ELSE s[k + 1]]

\* What delete_checkpoint returns.
delete_checkpoint_returns(checkpoint_id) ==
    FindById(rollback_points, checkpoint_id) # 0

delete_checkpoint(checkpoint_id) ==
    LET i == FindById(rollback_points, checkpoint_id)
    IN  IF i = 0
        THEN UNCHANGED vars
        ELSE /\ onlyCreates' = FALSE
             /\ Commit(heap, RemoveAt(rollback_points, i), current_state,
                       held, heldAs)
             /\ UNCHANGED <<elsewhere, config, rollback_count, checkpoint_count, now,
                            created>>

DeleteCheckpoint ==
    \E checkpoint_id \in AskedIds : delete_checkpoint(checkpoint_id)

\* rollback_points.clear(); current_state.clear(): the current-state dict is
\* emptied in place.
clear_history ==
    /\ onlyCreates' = FALSE
    /\ Commit([heap EXCEPT ![current_state] = 0], <<>>, current_state,
              held, heldAs)
    /\ UNCHANGED <<elsewhere, config, rollback_count, checkpoint_count, now, created>>

\* ----------------------------------------------------- export and import
\* Dicts JSON has no form for. OpaqueVal: a dict holding a value of a type
\* json cannot encode (a datetime, a set), which default=str turns into its
\* str(); StrVal is that dict with the string in the value's place.
\* CyclicVal: a dict json.dump raises on whatever `default` is (it holds
\* itself, or has a tuple for a key).
OpaqueVal == -2
CyclicVal == -3
StrVal == MaxVal + 1

\* The dicts a caller may pass besides those of Vals.
UnrepresentableVals == {OpaqueVal, CyclicVal}

\* json.dump(..., default=str) raises (line 243, caught at line 248).
JsonDumpRaises(v) == v = CyclicVal

\* What json.load reads back from what json.dump(..., default=str) wrote.
JsonDump(v) == IF v = OpaqueVal THEN StrVal ELSE v

\* json.dump(checkpoint.to_dict(), f, indent=2, default=str): the file written.
Exported(h, checkpoint) ==
    CheckpointFile(AllKeys, checkpoint.id, IsoFormat(checkpoint.timestamp),
                   checkpoint.description,
                   JsonDump(h[checkpoint.state_snapshot]),
                   JsonDump(h[checkpoint.metadata]))

\* What export_checkpoint returns; writable: open(file_path, 'w') succeeds.
export_checkpoint_returns(checkpoint_id, writable) ==
    LET i == get_checkpoint_returns(checkpoint_id)
    IN  /\ i # 0
        /\ writable
        /\ ~JsonDumpRaises(heap[rollback_points[i].state_snapshot])
        /\ ~JsonDumpRaises(heap[rollback_points[i].metadata])

\* The store is left as it was: the file is the effect.
export_checkpoint(checkpoint_id, writable) == UNCHANGED vars

ExportCheckpoint ==
    \E checkpoint_id \in AskedIds, writable \in BOOLEAN :
        export_checkpoint(checkpoint_id, writable)

\* A changed line 273: the timestamp is stored as the text it is.
ValidWithoutParse(data) == RequiredKeys \subseteq data.keys

\* The validation at line 267 and the parse at line 273.
ValidCheckpointData(data) ==
    /\ RequiredKeys \subseteq data.keys
    /\ data.timestamp # BadIso

\* What import_checkpoint returns: the id of the record, or None.
import_checkpoint_returns(data) ==
    IF ValidCheckpointData(data) THEN data.id ELSE NoneId

\* The history after the append at line 279.
AfterImport(rp, rollback_point) == Append(rp, rollback_point)

import_checkpoint(data) ==
    IF ~ValidCheckpointData(data)
    THEN UNCHANGED vars
    ELSE
    \E snap \in {Alloc(heap, data.state_snapshot)} :
    \E meta \in {Alloc(snap.h, IF "metadata" \in data.keys
                                THEN data.metadata ELSE 0)} :
    \E rp \in {AfterImport(rollback_points,
                    RollbackPoint(data.id, FromIsoFormat(data.timestamp),
                                  data.description, snap.r, meta.r))} :
        /\ Len(rp) <= MaxLen
        /\ onlyCreates' = FALSE
        /\ Commit(meta.h, rp, current_state, held, heldAs)
        /\ UNCHANGED <<elsewhere, config, rollback_count, checkpoint_count, now, created>>

\* The files the store itself can have written: the export of each entry
\* export_checkpoint finds by its id and succeeds on.
OwnFiles ==
    {Exported(heap, rollback_points[get_checkpoint_returns(checkpoint_id)]) :
        checkpoint_id \in {id \in Ids(rollback_points) :
                              export_checkpoint_returns(id, TRUE)}}

ImportCheckpoint(files) == \E data \in files \cup OwnFiles : import_checkpoint(data)

\* ------------------------------------------- statistics and validation
\* None where a formatted timestamp is expected.
NoTimestamp == [sec |-> -1, frac |-> -1]

\* rp[0] in the place of min(rp, key=timestamp).
FirstEntry(rp) == rp[1]

\* min(rp, key=timestamp): the first entry among those with the least key.
MinByTimestamp(rp) ==
    rp[CHOOSE i \in DOMAIN rp :
          /\ \A j \in DOMAIN rp : rp[i].timestamp <= rp[j].timestamp
          /\ \A j \in 1 .. (i - 1) : rp[i].timestamp < rp[j].timestamp]

\* What get_statistics returns ("config" is the dict the store was built from).
get_statistics_returns ==
    [enabled |-> enabled,
     total_checkpoints |-> Len(rollback_points),
     max_history |-> max_history,
     rollback_count |-> rollback_count,
     checkpoint_count |-> checkpoint_count,
     oldest_checkpoint |->
         IF rollback_points # <<>>
         THEN IsoFormat(MinByTimestamp(rollback_points).timestamp)
         ELSE NoTimestamp,
     newest_checkpoint |->
         IF rollback_points # <<>>
         THEN IsoFormat(MaxByTimestamp(rollback_points).timestamp)
         ELSE NoTimestamp,
     config |-> config]

get_statistics == UNCHANGED vars

\* A changed line 323: json.dumps(..., default=str).
JsonDumpsWithDefault(v) == v = CyclicVal

\* json.dumps(v), with no `default`, raises: on a value of a type json cannot
\* encode as on a dict that holds itself.
JsonDumpsRaises(v) == v \in {OpaqueVal, CyclicVal}

\* The loop of validate_state_integrity over the entries left, from the
\* report so far.
RECURSIVE ValidateEach(_, _, _)
ValidateEach(h, rp, report) ==
    IF rp = <<>> THEN report
    ELSE ValidateEach(h, Tail(rp),
            IF ~JsonDumpsRaises(h[Head(rp).state_snapshot])
            THEN [report EXCEPT !.valid_checkpoints = @ + 1]
            ELSE [report EXCEPT
                    !.invalid_checkpoints = @ + 1,
                    !.errors = Append(@, [checkpoint_id |-> Head(rp).id])])

\* What validate_state_integrity returns (the error's text is left out).
validate_state_integrity_returns ==
    ValidateEach(heap, rollback_points,
                 [total_checkpoints |-> Len(rollback_points),
                  valid_checkpoints |-> 0,
                  invalid_checkpoints |-> 0,
                  errors |-> <<>>])

validate_state_integrity == UNCHANGED vars

\* ------------------------------------------------------------ the caller
\* The caller changes the dict it holds (sets or deletes a key).
Mutate(v) ==
    /\ held # NoRef
    /\ heap[held] # v
    /\ Commit([heap EXCEPT ![held] = v], rollback_points, current_state,
              held, heldAs)
    /\ UNCHANGED <<elsewhere, config, rollback_count, checkpoint_count, now, created,
                   onlyCreates>>

CallerMutates == \E v \in Vals : Mutate(v)

\* The store, with a caller that keeps no reference to a dict it passed or
\* was handed.
Next ==
    \/ Tick
    \/ CreateCheckpoint({"none"})
    \/ RollbackToCheckpoint({FALSE})
    \/ RollbackToLatest({FALSE})
    \/ RollbackNSteps({FALSE})
    \/ GetCheckpoint({"none"})
    \/ GetCheckpointHistory({"none"})
    \/ DeleteCheckpoint
    \/ clear_history
    \/ ExportCheckpoint
    \/ ImportCheckpoint(ExternalFiles)
    \/ get_statistics
    \/ validate_state_integrity

Spec == Init /\ [][Next]_vars

\* The one external file of NextCaller.
CallerFiles ==
    {CheckpointFile(RequiredKeys, ForeignId, IsoFormat(0), "d", MaxVal, NoVal)}

\* The store, with a caller that keeps a reference to a dict it passed or was
\* handed, and changes that dict; the clock stands still, the files are the
\* store's own exports and one external file.
NextCaller ==
    \/ CreateCheckpoint({"state", "metadata"})
    \/ RollbackToCheckpoint({TRUE})
    \/ RollbackToLatest({TRUE})
    \/ RollbackNSteps({TRUE})
    \/ GetCheckpoint(DictKeys)
    \/ GetCheckpointHistory(DictKeys)
    \/ DeleteCheckpoint
    \/ clear_history
    \/ ExportCheckpoint
    \/ ImportCheckpoint(CallerFiles)
    \/ CallerMutates

SpecCaller == Init /\ [][NextCaller]_vars

\* create_checkpoint with a state or metadata JSON has no form for.
CreateUnrepresentable ==
    \E v \in Vals \cup UnrepresentableVals, m \in Vals \cup UnrepresentableVals :
        /\ v \in UnrepresentableVals \/ m \in UnrepresentableVals
        /\ create_checkpoint("d", <<"new", v>>, <<"new", m>>, "none")

\* The store written to files and read back: checkpoints of every kind of
\* dict are created, exported, and the store's own exports imported.
NextExport ==
    \/ Tick
    \/ CreateCheckpoint({"none"})
    \/ CreateUnrepresentable
    \/ ExportCheckpoint
    \/ ImportCheckpoint({})
    \/ get_statistics
    \/ validate_state_integrity

SpecExport == Init /\ [][NextExport]_vars

\* ---------------------------------------------------------------- threads
\* create_checkpoint called from several threads, none of which holds a
\* lock: a thread may be suspended between any two statements, and between
\* the load and the store of `self.checkpoint_count += 1`.
InFlight == {t \in Threads : pc[t] # "idle"}

\* The call, and `if not self.enabled: return ""` (lines 74-76).
Call(t, v) ==
    /\ pc[t] = "idle"
    /\ Len(created) + Cardinality(InFlight) < MaxCheckpoints
    /\ IF ~enabled
       THEN UNCHANGED vars
       ELSE /\ pc' = [pc EXCEPT ![t] = "l78"]
            /\ frame' = [frame EXCEPT ![t] = [NoFrame EXCEPT !.state = v]]
            /\ UNCHANGED <<storeVars, controllerVars, parserVars>>

\* checkpoint_id = f"checkpoint_{self.checkpoint_count}_{...}" (line 78)
L78(t) ==
    /\ pc[t] = "l78"
    /\ pc' = [pc EXCEPT ![t] = "l80"]
    /\ frame' = [frame EXCEPT ![t].checkpoint_id = NewCheckpointId]
    /\ UNCHANGED <<storeVars, controllerVars, parserVars>>

\* rollback_point = RollbackPoint(...); self.rollback_points.append(...)
\* (lines 80-88)
L80(t) ==
    /\ pc[t] = "l80"
    /\ \E st \in {Alloc(heap, frame[t].state)} :
       \E snap \in {SnapshotOfState(st.h, st.r)} :
       \E meta \in {MetadataOrEmpty(snap.h, NoRef)} :
           Commit(meta.h,
                  Append(rollback_points,
                         RollbackPoint(frame[t].checkpoint_id, now, "d",
                                       snap.r, meta.r)),
                  current_state, held, heldAs)
    /\ pc' = [pc EXCEPT ![t] = "l89"]
    /\ UNCHANGED <<config, rollback_count, checkpoint_count, now, created,
                   onlyCreates, frame, controllerVars, parserVars>>

\* self.current_state = deepcopy(state) (line 89)
L89(t) ==
    /\ pc[t] = "l89"
    /\ \E cur \in {Alloc(heap, frame[t].state)} :
           Commit(cur.h, rollback_points, cur.r, held, heldAs)
    /\ pc' = [pc EXCEPT ![t] = "l90"]
    /\ UNCHANGED <<config, rollback_count, checkpoint_count, now, created,
                   onlyCreates, frame, controllerVars, parserVars>>

\* self.checkpoint_count += 1 (line 90): the load ...
L90Load(t) ==
    /\ pc[t] = "l90"
    /\ pc' = [pc EXCEPT ![t] = "l90store"]
    /\ frame' = [frame EXCEPT ![t].count = checkpoint_count]
    /\ UNCHANGED <<storeVars, controllerVars, parserVars>>

\* ... and the store.
L90Store(t) ==
    /\ pc[t] = "l90store"
    /\ pc' = [pc EXCEPT ![t] = "l93"]
    /\ checkpoint_count' = frame[t].count + 1
    /\ UNCHANGED <<config, rollback_points, current_state, rollback_count,
                   heap, now, held, heldAs, created, onlyCreates, frame,
                   controllerVars, parserVars>>

\* if self.auto_cleanup and len(self.rollback_points) > self.max_history
\* (line 93)
L93(t) ==
    /\ pc[t] = "l93"
    /\ pc' = [pc EXCEPT ![t] =
                IF auto_cleanup /\ Len(rollback_points) > max_history
                THEN "l94" ELSE "l98"]
    /\ UNCHANGED <<storeVars, frame, controllerVars, parserVars>>

\* removed = self.rollback_points.pop(0) (line 94)
L94(t) ==
    /\ pc[t] = "l94"
    /\ rollback_points # <<>>
    /\ Commit(heap, Tail(rollback_points), current_state, held, heldAs)
    /\ pc' = [pc EXCEPT ![t] = "l98"]
    /\ UNCHANGED <<config, rollback_count, checkpoint_count, now, created,
                   onlyCreates, frame, controllerVars, parserVars>>

\* return checkpoint_id (line 98)
L98(t) ==
    /\ pc[t] = "l98"
    /\ pc' = [pc EXCEPT ![t] = "idle"]
    /\ created' = Append(created, frame[t].checkpoint_id)
    /\ frame' = [frame EXCEPT ![t] = NoFrame]
    /\ UNCHANGED <<config, rollback_points, current_state, rollback_count,
                   checkpoint_count, heap, now, held, heldAs, onlyCreates,
                   controllerVars, parserVars>>

\* A thread takes its next step in create_checkpoint.
ThreadStep(t) ==
    \/ \E v \in Vals : Call(t, v)
    \/ L78(t)
    \/ L80(t)
    \/ L89(t)
    \/ L90Load(t)
    \/ L90Store(t)
    \/ L93(t)
    \/ L94(t)
    \/ L98(t)

\* A reader running between two steps of the writers.
Reader ==
    \/ GetCheckpoint({"none"})
    \/ GetCheckpointHistory({"none"})
    \/ get_statistics
    \/ validate_state_integrity

\* The store called from the threads.
NextThreads ==
    \/ Tick
    \/ \E t \in Threads : ThreadStep(t)
    \/ Reader

SpecThreads == Init /\ [][NextThreads]_vars

\* ------------------------------------------------------- SystemController
\* An action: the keys of the dict and the value at "type". ListType is a
\* value no dict can be keyed by (a list).
ListType == "[]"
Action(keys, type) == [keys |-> keys, type |-> type]
NoTypeAction == Action({"invalid"}, "none")
StatusAction == Action({"type"}, "status")
Actions ==
    {Action({"type"}, type) : type \in {"sample", "test", "status", "custom", ListType}}
    \cup {NoTypeAction}

\* _validate_action: all(field in action for field in ["type"])
validate_action(action) == "type" \in action.keys

\* processors.get(action_type, ...) raises TypeError on an unhashable type
\* (line 137).
ProcessRaises(action) == action.type = ListType

\* get_status() of a controller with this status and history.
StatusOf(status, history) ==
    [current_status |-> status,
     execution_count |-> Len(history),
     last_execution |->
         IF history # <<>> THEN IsoFormat(history[Len(history)].timestamp)
         ELSE NoTimestamp]

get_status_returns == StatusOf(current_status, execution_history)

\* A changed line 162: the status is reported as it is.
ReportedAsItIs(temp_status) == temp_status

\* self.current_status = "idle" before get_status() (line 162).
ReportedStatus(temp_status) == "idle"

\* _process_status_action: what it returns and the status it leaves.
process_status_action(status, history) ==
    LET temp_status == status
        reported == StatusOf(ReportedStatus(temp_status), history)
    IN  [returns |-> reported, current_status |-> temp_status]

\* _process_test_action
process_test_action(status, history) ==
    [returns |-> [test_result |-> "passed",
                  controller_status |-> StatusOf(status, history)],
     current_status |-> status]

\* _process_sample_action and _process_default_action
process_message_action(action, status) ==
    [returns |-> [message |-> action.type], current_status |-> status]

\* _process_action: the processor of the action's type, or the default one.
process_action(action, status, history) ==
    CASE action.type = "status" -> process_status_action(status, history)
      [] action.type = "test" -> process_test_action(status, history)
      [] OTHER -> process_message_action(action, status)

\* A changed line 70: the status is left as the processor left it.
StatusKept(status) == status

\* self.current_status = "idle" (line 70)
StatusAfterSuccess(status) == "idle"

\* A changed line 88: the failed call leaves no record.
NotRecorded(history, record) == history

\* self.execution_history.append(execution_record) (lines 68 and 88)
Recorded(history, record) == Append(history, record)

\* execute_action: what it returns, and the history and the status it leaves.
Executed(action) ==
    LET start_time == now
        executing == "executing"
        record(status) ==
            [action |-> action, status |-> status, timestamp |-> start_time]
    IN  IF validate_action(action) /\ ~ProcessRaises(action)
        THEN LET p == process_action(action, executing, execution_history)
             IN  [returns |-> [status |-> "success", data |-> p.returns],
                  execution_history |->
                      Recorded(execution_history, record("success")),
                  current_status |-> StatusAfterSuccess(p.current_status)]
        ELSE [returns |-> [status |-> "error", data |-> [error |-> "raised"]],
              execution_history |->
                  Recorded(execution_history, record("error")),
              current_status |-> "error"]

execute_action_returns(action) == Executed(action).returns

execute_action(action) ==
    /\ Len(execution_history) < MaxExecutions
    /\ execution_history' = Executed(action).execution_history
    /\ current_status' = Executed(action).current_status
    /\ completed' = completed + 1
    /\ UNCHANGED <<storeVars, threadVars, parserVars>>

ExecuteAction == \E action \in Actions : execute_action(action)

get_status == UNCHANGED vars

\* get_execution_history returns a copy of the list.
get_execution_history_returns == execution_history

get_execution_history == UNCHANGED vars

\* reset: execution_history.clear(); current_status = "idle"
reset ==
    /\ execution_history' = <<>>
    /\ current_status' = "idle"
    /\ completed' = 0
    /\ UNCHANGED <<storeVars, threadVars, parserVars>>

\* The controller and the parser stand beside a store built from
\* {"max_history": MaxHistory}.
InitBeside ==
    /\ enabled = TRUE
    /\ max_history = MaxHistory
    /\ auto_cleanup = TRUE
    /\ InitStore
    /\ InitThreads

InitControllerAlone ==
    /\ InitBeside
    /\ InitController
    /\ InitParser(TRUE, FALSE, DefaultFormats)

NextController ==
    \/ Tick
    \/ ExecuteAction
    \/ get_status
    \/ get_execution_history
    \/ reset

SpecController == InitControllerAlone /\ [][NextController]_vars

\* ----------------------------------------------------------- ActionParser
\* What a decoder makes of a text: "fail" (it raises its decode error),
\* "dict" (a dict with a valid action type), "baddict" (a dict with a type
\* that is not among the valid types), "scalar" (anything but a dict).
\* An input is a dict, a text with what json.loads, yaml.safe_load and
\* ET.fromstring followed by _xml_to_dict make of it, or a value of another
\* type.
Input(kind, value, json, yaml, xml) ==
    [kind |-> kind, value |-> value, json |-> json, yaml |-> yaml, xml |-> xml]

Text(json, yaml, xml) == Input("str", "scalar", json, yaml, xml)

Texts ==
    {Text("dict", "dict", "fail"),       \* '{"type": "test"}'
     Text("baddict", "baddict", "fail"), \* '{"type": "bogus"}'
     Text("scalar", "scalar", "fail"),   \* '123'
     Text("fail", "dict", "fail"),       \* 'type: test'
     Text("fail", "baddict", "fail"),    \* 'type: bogus'
     Text("fail", "scalar", "dict"),     \* '<test><data>1</data></test>'
     Text("fail", "scalar", "baddict"),  \* '<bogus><data>1</data></bogus>'
     Text("fail", "scalar", "scalar"),   \* '<a>hello</a>'
     Text("fail", "scalar", "fail"),     \* 'hello'
     Text("fail", "fail", "fail")}       \* 'a: b: c'

Inputs ==
    {Input("dict", "dict", "fail", "fail", "fail"),
     Input("dict", "baddict", "fail", "fail", "fail"),
     Input("other", "scalar", "fail", "fail", "fail")}
    \cup Texts

\* _validate_and_normalize_action raises: a TypeError on what is no dict,
\* the ValueError of line 169 on an invalid type in strict mode.
ValidateRaises(value) == value = "scalar" \/ (strict_mode /\ value = "baddict")

\* json.loads(input_str) returns (line 96).
JsonLoads(input) == input.json # "fail"

\* _parse_string_input: the format counted, if any, and the value handed to
\* _validate_and_normalize_action, if any ("text": the plain-text result).
parse_string_input(input) ==
    IF "json" \in supported_formats /\ JsonLoads(input)
    THEN [counted |-> {"json"}, value |-> input.json]
    ELSE IF "yaml" \in supported_formats /\ input.yaml \in {"dict", "baddict"}
    THEN [counted |-> {"yaml"}, value |-> input.yaml]
    ELSE IF "xml" \in supported_formats /\ input.xml # "fail"
    THEN [counted |-> {"xml"}, value |-> input.xml]
    ELSE [counted |-> {}, value |-> "text"]

\* The try block of parse (lines 55-65): the formats counted and the value
\* validated.
Parsed(input) ==
    CASE input.kind = "dict" -> [counted |-> {}, value |-> input.value]
      [] input.kind = "str" -> parse_string_input(input)
      [] OTHER -> [counted |-> {}, value |-> "raw"]

\* The call raises inside the try block.
ParseFails(input) ==
    Parsed(input).value \notin {"text", "raw"} /\ ValidateRaises(Parsed(input).value)

\* What parse returns; "raised" when it raises (strict mode, line 72).
parse_returns(input) ==
    IF ~parser_enabled THEN [type |-> "disabled", data |-> input]
    ELSE IF ParseFails(input)
    THEN [type |-> IF strict_mode THEN "raised" ELSE "parse_error", data |-> input]
    ELSE [type |-> CASE Parsed(input).value = "text" -> "text"
                     [] Parsed(input).value = "raw" -> "raw"
                     [] OTHER -> "action",
          data |-> input]

\* A changed line 53: the call is not counted.
NotCounted(count) == count

\* self.parse_count += 1 (line 53)
Counted(count) == count + 1

parse(input) ==
    IF ~parser_enabled
    THEN UNCHANGED vars
    ELSE /\ parse_count < MaxParses
         /\ parse_count' = Counted(parse_count)
         /\ parse_calls' = parse_calls + 1
         /\ format_stats' =
                [fmt \in DOMAIN format_stats |->
                    IF fmt \in Parsed(input).counted
                    THEN format_stats[fmt] + 1 ELSE format_stats[fmt]]
         /\ error_count' = IF ParseFails(input) THEN error_count + 1 ELSE error_count
         /\ UNCHANGED <<storeVars, threadVars, controllerVars, parser_enabled,
                        strict_mode, supported_formats>>

Parse == \E input \in Inputs : parse(input)

\* The sum of the values of a dict of counts.
RECURSIVE SumOf(_, _)
SumOf(counts, keys) ==
    IF keys = {} THEN 0
    ELSE LET k == CHOOSE k \in keys : TRUE
         IN  counts[k] + SumOf(counts, keys \ {k})

\* What ActionParser.get_statistics returns (success_rate left out).
parser_statistics_returns ==
    [total_parsed |-> parse_count,
     errors |-> error_count,
     format_breakdown |-> format_stats]

parser_get_statistics == UNCHANGED vars

\* reset_statistics
reset_statistics ==
    /\ parse_count' = 0
    /\ error_count' = 0
    /\ format_stats' = [fmt \in supported_formats |-> 0]
    /\ parse_calls' = 0
    /\ UNCHANGED <<storeVars, threadVars, controllerVars, parser_enabled,
                   strict_mode, supported_formats>>

\* parser.enabled = b, set by the owner of the parser.
SetEnabled(b) ==
    /\ parser_enabled' = b
    /\ UNCHANGED <<storeVars, threadVars, controllerVars, strict_mode,
                   supported_formats, parse_count, error_count, format_stats,
                   parse_calls>>

\* A parser of any configuration.
InitParserAlone ==
    /\ InitBeside
    /\ InitController
    /\ \E isEnabled \in BOOLEAN, isStrict \in BOOLEAN,
          formats \in SUBSET DefaultFormats :
           InitParser(isEnabled, isStrict, formats)

NextParser ==
    \/ Parse
    \/ parser_get_statistics
    \/ reset_statistics
    \/ \E b \in BOOLEAN : SetEnabled(b)

SpecParser == InitParserAlone /\ [][NextParser]_vars

\* ================================================================ properties
Payload(i) == heap[rollback_points[i].state_snapshot]
LastCreated == created[Len(created)]

\* C1: the ids create_checkpoint returned are pairwise distinct, whatever
\* became of the entries that carried them.
C1_ReturnedIdsDistinct ==
    \A i, j \in DOMAIN created : i # j => created[i] # created[j]

\* Two ids were returned and the entry of one of them is gone.
C1_Witness ==
    /\ Len(created) >= 2
    /\ \E i \in DOMAIN created : created[i] \notin Ids(rollback_points)

\* C2: with auto_cleanup on and max_history = K >= 1, after more than K
\* create_checkpoint calls and no delete, clear or import, the history holds
\* exactly the K checkpoints created last, in creation order.
C2_KeepsNewestK ==
    (auto_cleanup /\ onlyCreates /\ Len(created) > max_history) =>
        /\ Len(rollback_points) = max_history
        /\ \A k \in 1 .. max_history :
              rollback_points[k].id = created[Len(created) - max_history + k]

\* Three checkpoints were created on a store that keeps two.
C2_Witness ==
    /\ auto_cleanup /\ onlyCreates
    /\ max_history >= 2
    /\ Len(created) > max_history
    /\ Len(rollback_points) = max_history

\* The caller's change of the dict it holds leaves the payload of entry i alone.
PayloadKept(i) ==
    heap'[rollback_points'[i].state_snapshot] = heap[rollback_points[i].state_snapshot]

MetadataKept(i) ==
    heap'[rollback_points'[i].metadata] = heap[rollback_points[i].metadata]

C4_BoundHolds == auto_cleanup => Len(rollback_points) <= max_history

\* C5: no two entries of the history carry the same id.
C5_HistoryIdsDistinct ==
    \A i, j \in DOMAIN rollback_points :
        i # j => rollback_points[i].id # rollback_points[j].id

\* Entry i can stand at place n of the history ordered by timestamp descending.
CanBeNth(i, n) ==
    LET rp == rollback_points
    IN  /\ Cardinality({j \in DOMAIN rp : rp[j].timestamp > rp[i].timestamp}) < n
        /\ n <= Cardinality({j \in DOMAIN rp : rp[j].timestamp >= rp[i].timestamp})

\* C6: on an enabled store rollback_n_steps(n), 1 <= n <= len(history),
\* returns the payload of the n-th entry by timestamp descending.
C6_NStepsReturnsNth ==
    enabled =>
        \A n \in 1 .. Len(rollback_points) :
            \E i \in DOMAIN rollback_points :
                CanBeNth(i, n) /\ rollback_n_steps_returns(n) = Payload(i)

\* The entry appended last among those with the greatest timestamp.
LastOfNewest ==
    LET rp == rollback_points
    IN  CHOOSE i \in DOMAIN rp :
            /\ \A j \in DOMAIN rp : rp[j].timestamp <= rp[i].timestamp
            /\ \A j \in DOMAIN rp : j > i => rp[j].timestamp < rp[i].timestamp

\* C7: on an enabled store with a non-empty history rollback_to_latest
\* returns the payload of the entry with the greatest timestamp, of the one
\* appended last when several share it.
C7_LatestIsLastOfNewest ==
    (enabled /\ rollback_points # <<>>) =>
        rollback_to_latest_returns = Payload(LastOfNewest)

\* C8: rollback_n_steps(n) returns None for n <= 0 and for n > len(history),
\* and on an enabled store rollback_n_steps(len(history)) returns the payload
\* of an oldest entry.
C8_OffsetBoundary ==
    /\ \A n \in Steps :
          (n <= 0 \/ n > Len(rollback_points)) => rollback_n_steps_returns(n) = NoVal
    /\ (enabled /\ rollback_points # <<>>) =>
          \E i \in DOMAIN rollback_points :
              /\ \A j \in DOMAIN rollback_points :
                    rollback_points[i].timestamp <= rollback_points[j].timestamp
              /\ rollback_n_steps_returns(Len(rollback_points)) = Payload(i)

\* C9: when the caller changes a dict it was handed by a read or a restore,
\* no stored payload and no stored metadata changes.
C9_ReadsAreCopies ==
    [][(CallerMutates /\ heldAs \in {"read", "restored"}) =>
        \A i \in DOMAIN rollback_points : PayloadKept(i) /\ MetadataKept(i)]_vars

\* C10: when the caller changes the metadata dict it passed to
\* create_checkpoint, the metadata of the checkpoint that call stored does
\* not change.
C10_MetadataCopied ==
    [][(CallerMutates /\ heldAs = "metadata") =>
        \A i \in DOMAIN rollback_points :
            rollback_points[i].id = LastCreated => MetadataKept(i)]_vars

\* A checkpoint with the values of its dicts in the place of the references,
\* and the history of such checkpoints.
Entry(h, checkpoint) ==
    [checkpoint EXCEPT !.state_snapshot = h[@], !.metadata = h[@]]

History(h, rp) == [i \in DOMAIN rp |-> Entry(h, rp[i])]

\* The entry with the lowest timestamp, the one inserted first among equals.
OldestIndex(rp) ==
    CHOOSE i \in DOMAIN rp :
        /\ \A j \in DOMAIN rp : rp[i].timestamp <= rp[j].timestamp
        /\ \A j \in 1 .. (i - 1) : rp[i].timestamp < rp[j].timestamp

\* C11: when create_checkpoint evicts, the history it leaves is the history
\* it found less the entry with the lowest timestamp (the one inserted first
\* among equals), plus the new checkpoint.
C11_EvictsLowestTimestamp ==
    [][(/\ CreateCheckpoint({"none"})
        /\ enabled /\ auto_cleanup
        /\ Len(rollback_points) + 1 > max_history) =>
            LET old == History(heap, rollback_points)
                new == History(heap', rollback_points')
            IN  /\ new[Len(new)].id = create_checkpoint_returns
                /\ new = Append(RemoveAt(old, OldestIndex(old)), new[Len(new)])]_vars

\* C12: the list order of the history agrees with the timestamp order.
C12_ListOrderIsTimeOrder ==
    \A i, j \in DOMAIN rollback_points :
        i < j => rollback_points[i].timestamp <= rollback_points[j].timestamp

\* A restore of any kind, the caller keeping the dict it is handed or not.
Restores ==
    \/ RollbackToCheckpoint(BOOLEAN)
    \/ RollbackToLatest(BOOLEAN)
    \/ RollbackNSteps(BOOLEAN)

\* C13: a restore leaves the stored checkpoints (ids, timestamps,
\* descriptions, payloads, metadata, order) and checkpoint_count as they
\* were; one that succeeds makes the current state equal to the payload of
\* its target.
C13_RestoresKeepHistory ==
    /\ [][Restores =>
            /\ History(heap', rollback_points') = History(heap, rollback_points)
            /\ checkpoint_count' = checkpoint_count]_vars
    /\ [][\A checkpoint_id \in AskedIds, keep \in BOOLEAN :
            (/\ RollbackTarget(checkpoint_id) # 0
             /\ rollback_to_checkpoint(checkpoint_id, keep)) =>
                heap'[current_state'] = Payload(RollbackTarget(checkpoint_id))]_vars

\* A restore went back to the first of two payloads stored.
C13_Witness ==
    /\ rollback_count >= 1
    /\ Len(rollback_points) >= 2
    /\ heap[current_state] # Payload(Len(rollback_points))
    /\ heap[current_state] = Payload(1)

\* C14: rollback_n_steps(n) returns the same after it was called;
\* rollback_n_steps(1) returns what rollback_to_latest returns, and on an
\* enabled store with a non-empty history that is the payload of an entry
\* with the greatest timestamp.
C14_RestoreByOffsetIsStable ==
    /\ [][\A steps \in Steps, keep \in BOOLEAN :
            rollback_n_steps(steps, keep) =>
                rollback_n_steps_returns(steps)' = rollback_n_steps_returns(steps)]_vars
    /\ [](/\ rollback_n_steps_returns(1) = rollback_to_latest_returns
          /\ (enabled /\ rollback_points # <<>>) =>
                \E i \in DOMAIN rollback_points :
                    /\ \A j \in DOMAIN rollback_points :
                          rollback_points[j].timestamp <= rollback_points[i].timestamp
                    /\ rollback_n_steps_returns(1) = Payload(i))

\* C15: on an enabled store rollback_to_checkpoint(id) returns the payload
\* of the first entry that carries the id when there is one and None when
\* there is none; on a disabled store it returns None for every id.
C15_RestoreByIdWhenEnabled ==
    \A checkpoint_id \in AskedIds :
        LET i == FindById(rollback_points, checkpoint_id)
        IN  /\ (enabled /\ i # 0) =>
                  rollback_to_checkpoint_returns(checkpoint_id) = Payload(i)
            /\ (~enabled \/ i = 0) =>
                  rollback_to_checkpoint_returns(checkpoint_id) = NoVal

\* A disabled store holds an entry, and the restore by its id returns None.
C15_Witness ==
    /\ ~enabled
    /\ rollback_points # <<>>
    /\ rollback_to_checkpoint_returns(rollback_points[1].id) = NoVal

\* C15 as stated: whatever the configuration, rollback_to_checkpoint(id)
\* returns the payload of an entry with the id when there is one, and None
\* only when there is none.
C15_RestoreByIdAnyConfig ==
    \A checkpoint_id \in AskedIds :
        IF checkpoint_id \in Ids(rollback_points)
        THEN \E i \in DOMAIN rollback_points :
                /\ rollback_points[i].id = checkpoint_id
                /\ rollback_to_checkpoint_returns(checkpoint_id) = Payload(i)
        ELSE rollback_to_checkpoint_returns(checkpoint_id) = NoVal

\* C16: on a disabled store create_checkpoint returns "" and changes neither
\* the history nor the current state nor checkpoint_count: no checkpoint was
\* ever counted or returned there, and the current state is still empty.
C16_DisabledCreateIsNoOp ==
    /\ [](~enabled =>
            /\ create_checkpoint_returns = EmptyId
            /\ checkpoint_count = 0
            /\ created = <<>>
            /\ heap[current_state] = 0)
    /\ [][(~enabled /\ CreateCheckpoint({"none", "state", "metadata"})) =>
            UNCHANGED <<rollback_points, current_state, heap,
                        checkpoint_count>>]_vars

\* A disabled store that was used for a while: it holds imported entries.
C16_Witness ==
    /\ ~enabled
    /\ now > 0
    /\ Len(rollback_points) >= 2
    /\ create_checkpoint_returns = EmptyId

\* The record lacks a required key or its timestamp does not parse.
Malformed(data) ==
    \/ ~(RequiredKeys \subseteq data.keys)
    \/ data.timestamp = BadIso

\* C17: import_checkpoint of a malformed record returns None and changes
\* nothing; of a well-formed record it appends one entry with the record's
\* id (with empty metadata when the record has none) and changes nothing else.
C17_MalformedImportFails ==
    /\ [](\A data \in ExternalFiles :
            Malformed(data) => import_checkpoint_returns(data) = NoneId)
    /\ [][\A data \in ExternalFiles :
            import_checkpoint(data) =>
                IF Malformed(data) THEN UNCHANGED vars
                ELSE LET new == History(heap', rollback_points')
                     IN  /\ Len(new) = Len(rollback_points) + 1
                         /\ new[Len(new)].id = data.id
                         /\ import_checkpoint_returns(data) = data.id
                         /\ "metadata" \notin data.keys =>
                                new[Len(new)].metadata = 0
                         /\ SubSeq(new, 1, Len(new) - 1)
                                = History(heap, rollback_points)
                         /\ heap'[current_state'] = heap[current_state]
                         /\ UNCHANGED <<rollback_count, checkpoint_count>>]_vars

\* A record without metadata was imported after another entry.
C17_Witness ==
    /\ Len(rollback_points) = 2
    /\ rollback_points[2].id = ForeignId
    /\ rollback_points[2].timestamp = MaxTime
    /\ heap[rollback_points[2].metadata] = 0
    /\ Payload(2) = MaxVal
    /\ checkpoint_count = 1

\* JSON has a form for the dict, and reading it back gives the dict.
Representable(v) == ~JsonDumpRaises(v) /\ JsonDump(v) = v

C19_ExportFailsOnUnrepresentable ==
    \A checkpoint_id \in Ids(rollback_points) :
        ~Representable(Payload(get_checkpoint_returns(checkpoint_id))) =>
            ~export_checkpoint_returns(checkpoint_id, TRUE)

\* C20: a restore that returns a payload adds one to rollback_count, and
\* nothing else changes it.
C20_CountsSuccessfulRestores ==
    [][IF Restores
       THEN rollback_count' = rollback_count + 1
       ELSE rollback_count' = rollback_count]_vars

\* One restore was counted, after two checkpoints.
C20_Witness ==
    /\ rollback_count = 1
    /\ checkpoint_count >= 2
    /\ heap[current_state] # 0

\* C21: delete_checkpoint returns true exactly when an entry with the id is
\* in the history; it then removes one entry, which has that id, and keeps
\* the others in their order, the current state and both counters; when it
\* returns false nothing changes.
C21_DeleteRemovesOneEntry ==
    [][\A checkpoint_id \in AskedIds :
        delete_checkpoint(checkpoint_id) =>
            LET old == History(heap, rollback_points)
                new == History(heap', rollback_points')
            IN  IF checkpoint_id \in Ids(rollback_points)
                THEN /\ delete_checkpoint_returns(checkpoint_id)
                     /\ \E i \in DOMAIN old :
                            /\ old[i].id = checkpoint_id
                            /\ Len(new) = Len(old) - 1
                            /\ \A k \in DOMAIN new :
                                   new[k] = IF k < i THEN old[k] ELSE old[k + 1]
                     /\ heap'[current_state'] = heap[current_state]
                     /\ UNCHANGED <<rollback_count, checkpoint_count>>
                ELSE /\ ~delete_checkpoint_returns(checkpoint_id)
                     /\ UNCHANGED vars]_vars

\* The second of two checkpoints was deleted: the first is the history, the
\* current state is still the second one's.
C21_Witness ==
    /\ ~auto_cleanup
    /\ Len(created) = 2
    /\ Len(rollback_points) = 1
    /\ rollback_points[1].id = created[1]
    /\ created[2] # created[1]
    /\ Payload(1) = 0
    /\ heap[current_state] = 1
    /\ rollback_count = 0

\* C22: validate_state_integrity changes nothing; valid_checkpoints and
\* invalid_checkpoints add up to the length of the history,
\* invalid_checkpoints is the number of entries whose payload json.dumps
\* cannot write, and the errors name each such entry once, by its id.
C22_ValidationCountsBadPayloads ==
    /\ [](LET report == validate_state_integrity_returns
              bad == {i \in DOMAIN rollback_points :
                         Payload(i) \in UnrepresentableVals}
              named(id) == {k \in DOMAIN report.errors :
                               report.errors[k].checkpoint_id = id}
          IN  /\ report.total_checkpoints = Len(rollback_points)
              /\ report.valid_checkpoints + report.invalid_checkpoints
                     = Len(rollback_points)
              /\ report.invalid_checkpoints = Cardinality(bad)
              /\ Len(report.errors) = Cardinality(bad)
              /\ \A id \in Ids(rollback_points) :
                     Cardinality(named(id))
                         = Cardinality({i \in bad : rollback_points[i].id = id}))
    /\ [][validate_state_integrity => UNCHANGED vars]_vars

\* A history of one entry json.dumps can write and one it cannot.
C22_Witness ==
    /\ Len(rollback_points) = 2
    /\ Payload(1) = OpaqueVal
    /\ Payload(2) \in Vals
    /\ validate_state_integrity_returns.invalid_checkpoints = 1
    /\ validate_state_integrity_returns.errors
           = <<[checkpoint_id |-> rollback_points[1].id]>>

\* C23: get_statistics changes nothing; total_checkpoints is the length of
\* the history, checkpoint_count the number of create_checkpoint calls that
\* returned an id, oldest_checkpoint and newest_checkpoint are None exactly on
\* an empty history and else the least and greatest timestamp in it.
C23_StatisticsArePureRead ==
    /\ [](LET stats == get_statistics_returns
              times == {rollback_points[i].timestamp : i \in DOMAIN rollback_points}
          IN  /\ stats.total_checkpoints = Len(rollback_points)
              /\ stats.checkpoint_count = Len(created)
              /\ stats.oldest_checkpoint = NoTimestamp <=> rollback_points = <<>>
              /\ stats.newest_checkpoint = NoTimestamp <=> rollback_points = <<>>
              /\ rollback_points # <<>> =>
                    /\ \E t \in times :
                          /\ \A u \in times : t <= u
                          /\ stats.oldest_checkpoint = IsoFormat(t)
                    /\ \E t \in times :
                          /\ \A u \in times : u <= t
                          /\ stats.newest_checkpoint = IsoFormat(t))
    /\ [][get_statistics => UNCHANGED vars]_vars

\* A history whose first entry is not its oldest: an older one was imported
\* after it.
C23_Witness ==
    /\ Len(rollback_points) = 2
    /\ rollback_points[2].timestamp < rollback_points[1].timestamp
    /\ Len(created) = 1
    /\ get_statistics_returns.oldest_checkpoint
           = IsoFormat(rollback_points[2].timestamp)
    /\ get_statistics_returns.newest_checkpoint
           = IsoFormat(rollback_points[1].timestamp)

\* C30: the dict a restore handed to the caller and the store's current
\* state are independent: clear_history leaves the caller's dict as it was,
\* and the caller changing its dict leaves the current state as it was.
C30_RestoredIsIndependent ==
    [][(heldAs = "restored" /\ held # NoRef) =>
          /\ clear_history => heap'[held'] = heap[held]
          /\ CallerMutates => heap'[current_state'] = heap[current_state]]_vars

\* C24: on a store that evicts, a reader running while create_checkpoint
\* calls are in progress never finds more than max_history entries.
C24_ReaderSeesBoundedHistory ==
    auto_cleanup =>
        /\ get_statistics_returns.total_checkpoints <= max_history
        /\ validate_state_integrity_returns.total_checkpoints <= max_history
        /\ Len(get_checkpoint_history_returns) <= max_history

\* C25: create_checkpoint calls that overlap leave what the same calls
\* leave one after the other: once all have returned, checkpoint_count is
\* the number of calls, the ids returned differ from one another, and a
\* store that does not evict holds one entry for each call.
C25_OverlappingCreatesAreSerial ==
    InFlight = {} =>
        /\ checkpoint_count = Len(created)
        /\ \A i, j \in DOMAIN created : i # j => created[i] # created[j]
        /\ ~auto_cleanup => Len(rollback_points) = Len(created)

\* C26: between execute_action calls current_status is 'idle' or 'error':
\* 'idle' after __init__, after reset and after a call that returned
\* 'success', 'error' after a call that returned 'error'; and whatever the
\* status, an action with a type a processor can be looked up by succeeds.
C26_StatusBetweenCalls ==
    /\ [](current_status \in {"idle", "error"})
    /\ [](completed = 0 => current_status = "idle")
    /\ [](\A action \in Actions :
             (validate_action(action) /\ action.type # ListType) =>
                 execute_action_returns(action).status = "success")
    /\ [][\A action \in Actions :
             execute_action(action) =>
                 current_status' =
                     IF execute_action_returns(action).status = "success"
                     THEN "idle" ELSE "error"]_vars

\* A sample action succeeded after an action without a type had failed.
C26_Witness ==
    /\ Len(execution_history) = 2
    /\ execution_history[1].action = NoTypeAction
    /\ execution_history[1].status = "error"
    /\ execution_history[2].action.type = "sample"
    /\ execution_history[2].status = "success"
    /\ current_status = "idle"

\* C27: each execute_action call appends one record to execution_history,
\* with the status the call returns; get_status().execution_count is the
\* number of calls since __init__ or the last reset, and right after either
\* it is 0 and last_execution is None.
C27_OneRecordPerCall ==
    /\ [](get_status_returns.execution_count = completed)
    /\ [](completed = 0 =>
             /\ get_status_returns.execution_count = 0
             /\ get_status_returns.last_execution = NoTimestamp)
    /\ [][\A action \in Actions :
             execute_action(action) =>
                 /\ Len(execution_history') = Len(execution_history) + 1
                 /\ SubSeq(execution_history', 1, Len(execution_history))
                        = execution_history
                 /\ execution_history'[Len(execution_history')].status
                        = execute_action_returns(action).status]_vars

\* Two calls since the reset: one that succeeded, then one that failed.
C27_Witness ==
    /\ completed = 2
    /\ Len(execution_history) = 2
    /\ execution_history[1].status = "success"
    /\ execution_history[2].status = "error"
    /\ current_status = "error"

\* C28: a 'status' action returns 'success' with data.current_status 'idle',
\* from the status 'idle' as from 'error', and leaves current_status 'idle'
\* as every successful action does.
C28_StatusActionReportsIdle ==
    /\ [](/\ execute_action_returns(StatusAction).status = "success"
          /\ execute_action_returns(StatusAction).data.current_status = "idle")
    /\ [][\A action \in Actions :
             (execute_action(action)
                 /\ execute_action_returns(action).status = "success") =>
                 current_status' = Executed(StatusAction).current_status]_vars

\* A 'status' action was executed by a controller in the status 'error'.
C28_Witness ==
    /\ Len(execution_history) = 2
    /\ execution_history[1].status = "error"
    /\ execution_history[2].action = StatusAction
    /\ execution_history[2].status = "success"
    /\ current_status = "idle"

\* C29: total_parsed is the number of parse calls made on the enabled parser
\* since __init__ or the last reset_statistics; errors and the sum of
\* format_breakdown are at most total_parsed; a dict or a value that is no
\* text adds to no format count; reset_statistics sets every counter to 0;
\* parse on a disabled parser changes no counter and returns type
\* 'disabled' with the input as data.
C29_ParserCounters ==
    /\ [](LET stats == parser_statistics_returns
          IN  /\ stats.total_parsed = parse_calls
              /\ stats.errors <= stats.total_parsed
              /\ SumOf(stats.format_breakdown, DOMAIN stats.format_breakdown)
                     <= stats.total_parsed)
    /\ [][\A input \in Inputs :
             parse(input) =>
                 /\ input.kind # "str" => format_stats' = format_stats
                 /\ ~parser_enabled =>
                        /\ UNCHANGED <<parse_count, error_count, format_stats>>
                        /\ parse_returns(input).type = "disabled"
                        /\ parse_returns(input).data = input]_vars
    /\ [][reset_statistics =>
             /\ parse_count' = 0
             /\ error_count' = 0
             /\ \A fmt \in DOMAIN format_stats' : format_stats'[fmt] = 0]_vars

\* Three parses since the last reset: one counted as JSON, one as XML that
\* failed, one of a dict; the parser has since been disabled.
C29_Witness ==
    /\ ~parser_enabled
    /\ supported_formats = DefaultFormats
    /\ parse_count = 3
    /\ error_count = 1
    /\ format_stats = [fmt \in DefaultFormats |->
                          IF fmt = "yaml" THEN 0 ELSE 1]

\* C31: on an enabled store, right after create_checkpoint(description,
\* state) has returned an id, get_checkpoint of that id gives an entry whose
\* payload is equal to state, and the current state is equal to state.
C31_CreatedIsReadBack ==
    [][\A description \in Descriptions, sArg \in ArgChoices(FALSE),
          mArg \in ArgChoices(TRUE), keep \in {"none", "state", "metadata"} :
          (enabled /\ create_checkpoint(description, sArg, mArg, keep)) =>
              LET state == Argument(heap, sArg)
                  found == FindById(rollback_points', create_checkpoint_returns)
              IN  /\ found # 0
                  /\ heap'[rollback_points'[found].state_snapshot]
                         = state.h[state.r]
                  /\ heap'[current_state'] = state.h[state.r]]_vars

\* The history, the current state and rollback_count are as they were.
RestoreLeftNoTrace ==
    /\ History(heap', rollback_points') = History(heap, rollback_points)
    /\ heap'[current_state'] = heap[current_state]
    /\ rollback_count' = rollback_count

\* C32: a restore that fails (an id no entry carries, an offset out of
\* range, an empty history, a disabled store) returns None and leaves the
\* history, the current state and rollback_count as they were.
C32_FailedRestoreChangesNothing ==
    /\ [](/\ \A checkpoint_id \in AskedIds :
                (~enabled \/ checkpoint_id \notin Ids(rollback_points)) =>
                    rollback_to_checkpoint_returns(checkpoint_id) = NoVal
          /\ \A steps \in Steps :
                (~enabled \/ steps <= 0 \/ steps > Len(rollback_points)) =>
                    rollback_n_steps_returns(steps) = NoVal
          /\ (~enabled \/ rollback_points = <<>>) =>
                rollback_to_latest_returns = NoVal)
    /\ [][/\ \A checkpoint_id \in AskedIds, keep \in BOOLEAN :
                (/\ ~enabled \/ checkpoint_id \notin Ids(rollback_points)
                 /\ rollback_to_checkpoint(checkpoint_id, keep)) =>
                    RestoreLeftNoTrace
          /\ \A steps \in Steps, keep \in BOOLEAN :
                (/\ ~enabled \/ steps <= 0 \/ steps > Len(rollback_points)
                 /\ rollback_n_steps(steps, keep)) =>
                    RestoreLeftNoTrace
          /\ \A keep \in BOOLEAN :
                (/\ ~enabled \/ rollback_points = <<>>
                 /\ rollback_to_latest(keep)) =>
                    RestoreLeftNoTrace]_vars

\* An enabled store of two entries and a current state that is not empty,
\* where a restore by an unknown id and one by the offset 3 fail.
C32_Witness ==
    /\ enabled
    /\ Len(rollback_points) = 2
    /\ heap[current_state] # 0
    /\ heap[current_state] # Payload(1)
    /\ ForeignId \notin Ids(rollback_points)
    /\ rollback_to_checkpoint_returns(ForeignId) = NoVal
    /\ rollback_n_steps_returns(3) = NoVal
    /\ rollback_n_steps_returns(0) = NoVal
====
